---- MODULE Spec2Model ----
(***************************************************************************)
(* WorkflowContext, the tiered context store of Discomfort, as described   *)
(* by the WorkflowContext API reference (src/unnamed/part_002) and the     *)
(* core-concepts pages.  One store instance: its metadata table, its RAM   *)
(* tier (shared-memory segments), its disk tier (files in the run's        *)
(* scratch directory), its usage counters, the durable destinations of     *)
(* export_data and the with-statement scope the store is used in.          *)
(***************************************************************************)
EXTENDS Integers, Sequences, FiniteSets, TLC

\* ------------------------------------------------------------------ bounds
\* Data values are the integers 0..MaxData (stand-ins for pickleable objects).
MaxData == 2
\* RAM budget of the store in bytes (max_ram_gb scaled down).
RamCapacity == 2
\* loads of one stored workflow graph that are followed
MaxLoads == 3
\* ComfyConnector instances created one after the other in a process
MaxInstances == 3
\* server start attempts of one initialization (MAX_COMFY_START_ATTEMPTS
\* scaled down)
MaxAttempts == 2
\* workflows run and ephemeral files uploaded that are followed
MaxRuns == 3

\* unique_ids used by the callers
Keys == {"k1", "k2"}
\* destination paths handed to export_data
Dests == {"d1"}
\* names of shared-memory segments / scratch files: one per key is enough
\* since an entry owns exactly one resource
Handles == 1..Cardinality(Keys)

Data == 0..MaxData
\* the workflow graphs callers store with pass_by="ref"
Recipes == {MaxData}
\* what callers hand to save: <<data, pass_by>>
Inputs == {<<d, "val">> : d \in Data} \cup {<<g, "ref">> : g \in Recipes}

\* --------------------------------------------------------------- variables
VARIABLES
    meta,      \* unique_id -> storage metadata (get_storage_info)
    shm,       \* RAM tier: live shared-memory segment -> bytes
    files,     \* disk tier: file in the scratch directory -> bytes
    ramUsed,   \* usage counter: bytes on the RAM tier
    diskUsed,  \* usage counter: bytes on the disk tier
    scratch,   \* the run's scratch directory exists
    closed,    \* shutdown() has run
    destFs,    \* durable storage: destination path -> bytes
    scope,     \* with-statement: "unscoped", "entered", "exited"
    lastVal,   \* history: unique_id -> the data of the completed by-value save
               \* still in force for it, NoData when there is none
    ret,       \* record of the last call: its arguments and its outcome
    lock,      \* the context's file lock: the thread inside an operation, "free"
    pc,        \* thread -> where it stands inside the operation it is running
    own,       \* history: thread -> the key of its last completed save that
               \* is still in force, and whether another save replaced it
    obs,       \* what the last get_usage/list_keys/get_storage_info reader saw
    seen,      \* what the last load on the shared context returned
    engineRuns, \* unique_id -> workflows the engine ran for the stored entry
    refLoads,  \* unique_id -> load calls made on the stored workflow graph
    wfs,       \* the workflows handed to WorkflowTools, in order
    gret,      \* what the last WorkflowTools call returned
    state,     \* ComfyConnector instance -> its state, in order of creation
    instance,  \* the singleton: the instance create() returns, 0 when none
    attempts,  \* server start attempts made by the running initialization
    runs,      \* workflows run in the process
    ephemeral  \* ephemeral files the singleton has uploaded

\* the shared-context threads, the engine counters, the workflow tools
concVars == <<lock, pc, own, obs, seen>>
refVars == <<engineRuns, refLoads>>
graphVars == <<wfs, gret>>
connVars == <<state, instance, attempts, runs, ephemeral>>

vars == <<meta, shm, files, ramUsed, diskUsed, scratch, closed, destFs, scope,
         lastVal, ret, concVars, refVars, graphVars, connVars>>

\* the store proper: what an operation that fails must leave alone
storeVars == <<meta, shm, files, ramUsed, diskUsed, scratch, closed>>

\* ------------------------------------------------------------ serialization
\* cloudpickle.dumps on an integer: its binary digits, least significant
\* first (the size of the payload grows with the value).
RECURSIVE Serialize(_)
Serialize(v) ==
    IF v < 2 THEN <<v>> ELSE <<v % 2>> \o Serialize(v \div 2)

\* a loader that reads only the first byte of the payload
DeserializeFirstByte(b) == b[1]

\* cloudpickle.loads: the inverse of the encoding above
RECURSIVE Deserialize(_)
Deserialize(b) ==
    IF Len(b) = 0 THEN 0 ELSE b[1] + 2 * Deserialize(Tail(b))

\* ----------------------------------------------------------------- metadata
Absent == [present |-> FALSE, storage_type |-> "none", pass_by |-> "none",
           handle |-> 0, size |-> 0]

\* an entry that forgets how it was passed and records the default "val"
NewEntryDefaultPassBy(storage_type, pass_by, handle, size) ==
    [present |-> TRUE, storage_type |-> storage_type, pass_by |-> "val",
     handle |-> handle, size |-> size]

\* the metadata record of a stored entry (shm_name / path are the handle)
NewEntry(storage_type, pass_by, handle, size) ==
    [present |-> TRUE, storage_type |-> storage_type, pass_by |-> pass_by,
     handle |-> handle, size |-> size]

NoSegments == [h \in {} |-> <<>>]

NoData == 0 - 1

\* a file that was at the destination before the store existed
Preexisting == <<9>>

NoValue == [kind |-> "none", v |-> 0]
DataValue(v) == [kind |-> "data", v |-> v]
\* what the external engine returns when it executes recipe g
EngineOutput(g) == [kind |-> "engine_output", v |-> g]

NoArg == [data |-> 0, use_ram |-> FALSE, pass_by |-> "none", overwrote |-> FALSE,
          dest |-> "none", overwrite |-> FALSE, again |-> FALSE, dropped |-> 0,
          exc |-> FALSE]

Call(op, key, status, value, arg) ==
    [op |-> op, key |-> key, status |-> status, value |-> value, arg |-> arg]

\* ------------------------------------------------------------ read-only API
list_keys == {k \in Keys : meta[k].present}

get_storage_info(k) == meta[k]

get_usage ==
    [ram_usage_bytes |-> ramUsed, ram_capacity_bytes |-> RamCapacity,
     temp_disk_usage_bytes |-> diskUsed,
     stored_keys_count |-> Cardinality(list_keys)]

\* ---------------------------------------------------------------- resources
MinOf(S) == CHOOSE x \in S : \A y \in S : x <= y

\* the segment or file name a new resource gets among those not in use
Alloc(live) == MinOf(Handles \ live)

Without(f, h) == [x \in DOMAIN f \ {h} |-> f[x]]
With(f, h, b) == [x \in DOMAIN f \cup {h} |-> IF x = h THEN b ELSE f[x]]

\* the tiers and counters once entry e (possibly Absent) has been released:
\* an exported entry frees the context memory it took
ShmAfterRelease(e) ==
    IF e.present /\ e.storage_type = "ram" THEN Without(shm, e.handle) ELSE shm
FilesAfterRelease(e) ==
    IF e.present /\ e.storage_type = "disk" THEN Without(files, e.handle) ELSE files
\* a release that frees the segment and forgets to take its bytes off the counter
RamAfterReleaseStale(e) == ramUsed

RamAfterRelease(e) ==
    IF e.present /\ e.storage_type = "ram" THEN ramUsed - e.size ELSE ramUsed
DiskAfterRelease(e) ==
    IF e.present /\ e.storage_type = "disk" THEN diskUsed - e.size ELSE diskUsed

\* save under a key that is present: the entry it replaces gives up its
\* segment or file and leaves the counters
ShmAfterReplace(old) == ShmAfterRelease(old)
FilesAfterReplace(old) == FilesAfterRelease(old)
RamAfterReplace(old) == RamAfterRelease(old)
DiskAfterReplace(old) == DiskAfterRelease(old)

\* the bytes an entry holds on its tier
ReadPayload(e) ==
    IF e.storage_type = "ram" THEN shm[e.handle] ELSE files[e.handle]

\* --------------------------------------------------------------------- save
\* the capacity test of the RAM tier
FitsInRam(size) == ramUsed + size <= RamCapacity

\* a choice of tier that takes RAM whenever it is preferred, full or not
StorageTypeIgnoresCapacity(use_ram, size) == IF use_ram THEN "ram" ELSE "disk"

\* Storage Selection Logic: use_ram=True prefers RAM and falls back to disk
\* when capacity is exceeded; use_ram=False forces disk.
StorageType(use_ram, size) ==
    IF use_ram /\ FitsInRam(size) THEN "ram" ELSE "disk"

\* the workers that share the context
Threads == {"t1", "t2"}

\* the data a worker saves (worker_function: each worker saves its own items)
ThreadData(t) == IF t = "t1" THEN 0 ELSE MaxData

Idle == [at |-> "idle", key |-> "none", tier |-> "none", handle |-> 0]
NoOwn == [key |-> "none", superseded |-> FALSE]
NoObservation == [made |-> FALSE, keys |-> 0, ram_agrees |-> TRUE,
                  disk_agrees |-> TRUE, count_agrees |-> TRUE]
NoLoad == [after_own |-> FALSE, superseded |-> FALSE, status |-> "none",
           own_data |-> FALSE]

ConcIdle ==
    /\ lock = "free"
    /\ pc = [t \in Threads |-> Idle]
    /\ own = [t \in Threads |-> NoOwn]
    /\ obs = NoObservation
    /\ seen = NoLoad

\* the engine has run nothing, WorkflowTools has been given nothing
RefIdle ==
    /\ engineRuns = [k \in Keys |-> 0]
    /\ refLoads = [k \in Keys |-> 0]

NoWorkflows == <<>>
NoGraph == [nodes |-> {}, links |-> {}]
NoPorts == [u \in {} |-> 0]
NoResult == [op |-> "none", index |-> 0, delete_input_ports |-> FALSE,
             delete_output_ports |-> FALSE, status |-> "none",
             stitched_workflow |-> NoGraph, inputs |-> NoPorts,
             outputs |-> NoPorts, passthrus |-> NoPorts,
             unique_id_to_node |-> NoPorts, execution_order |-> <<>>,
             clean_nodes |-> {}, clean_links |-> {}, link_id_map |-> NoPorts,
             target_output_unique_id |-> "none", pruned_workflow |-> NoGraph]
GraphIdle ==
    /\ wfs = NoWorkflows
    /\ gret = NoResult

\* no ComfyConnector has been created
ConnIdle ==
    /\ state = <<>>
    /\ instance = 0
    /\ attempts = 0
    /\ runs = 0
    /\ ephemeral = 0

Init ==
    /\ meta = [k \in Keys |-> Absent]
    /\ shm = NoSegments
    /\ files = NoSegments
    /\ ramUsed = 0
    /\ diskUsed = 0
    /\ scratch = TRUE
    /\ closed = FALSE
    /\ destFs \in {NoSegments, [d \in Dests |-> Preexisting]}
    /\ scope = "unscoped"
    /\ lastVal = [k \in Keys |-> NoData]
    /\ ret = Call("init", "none", "ok", NoValue, NoArg)
    /\ ConcIdle
    /\ RefIdle
    /\ GraphIdle
    /\ ConnIdle

\* save(unique_id, data, use_ram, pass_by): serialize, pick the tier, release
\* what the key held before, store the payload and its metadata.  (The
\* reference documents no use of a context after shutdown(): save, load and
\* export_data are taken only while the context is open.)
save(k, data, use_ram, pass_by) ==
    /\ ~closed
    /\ LET bytes == Serialize(data)
           size  == Len(bytes)
           old   == meta[k]
           tier  == StorageType(use_ram, size)
           shm1  == ShmAfterReplace(old)
           fil1  == FilesAfterReplace(old)
           h     == IF tier = "ram" THEN Alloc(DOMAIN shm1) ELSE Alloc(DOMAIN fil1)
       IN /\ shm' = IF tier = "ram" THEN With(shm1, h, bytes) ELSE shm1
          /\ files' = IF tier = "disk" THEN With(fil1, h, bytes) ELSE fil1
          /\ ramUsed' = RamAfterReplace(old) + (IF tier = "ram" THEN size ELSE 0)
          /\ diskUsed' = DiskAfterReplace(old) + (IF tier = "disk" THEN size ELSE 0)
          /\ meta' = [meta EXCEPT ![k] = NewEntry(tier, pass_by, h, size)]
          /\ lastVal' = [lastVal EXCEPT ![k] = IF pass_by = "val" THEN data ELSE NoData]
          /\ ret' = Call("save", k, "ok", NoValue,
                         [NoArg EXCEPT !.data = data, !.use_ram = use_ram,
                                       !.pass_by = pass_by, !.overwrote = old.present])
    /\ UNCHANGED <<scratch, closed, destFs, scope>>

\* a save that, finding RAM full, throws the other entries away and raises
SaveMemoryErrorEvictsOthers(k, data, pass_by) ==
    /\ ~closed
    /\ ~FitsInRam(Len(Serialize(data)))
    /\ meta' = [j \in Keys |-> IF j = k THEN meta[j] ELSE Absent]
    /\ ret' = Call("save", k, "MemoryError", NoValue,
                   [NoArg EXCEPT !.data = data, !.use_ram = TRUE,
                                 !.pass_by = pass_by, !.overwrote = meta[k].present])
    /\ UNCHANGED <<shm, files, ramUsed, diskUsed, scratch, closed, destFs,
                   scope, lastVal>>

\* The Error Handling section catches MemoryError around
\* save(..., use_ram=True) ("RAM full, falling back to disk storage") and
\* retries with use_ram=False: a save that prefers RAM and does not fit may
\* also raise instead of falling back.  The store is left as it was.
SaveMemoryError(k, data, pass_by) ==
    /\ ~closed
    /\ ~FitsInRam(Len(Serialize(data)))
    /\ ret' = Call("save", k, "MemoryError", NoValue,
                   [NoArg EXCEPT !.data = data, !.use_ram = TRUE,
                                 !.pass_by = pass_by, !.overwrote = meta[k].present])
    /\ UNCHANGED <<storeVars, destFs, scope, lastVal>>

\* --------------------------------------------------------------------- load
\* a load that answers None for an unknown key instead of raising
LoadOutcomeNoneForMissing(k) ==
    IF ~meta[k].present THEN [status |-> "ok", value |-> NoValue]
    ELSE IF meta[k].pass_by = "val"
         THEN [status |-> "ok", value |-> DataValue(Deserialize(ReadPayload(meta[k])))]
         ELSE [status |-> "ok", value |-> EngineOutput(Deserialize(ReadPayload(meta[k])))]

\* what load(unique_id) answers in the current state: KeyError for an unknown
\* key, the deserialized data of a "val" entry, the engine's output for the
\* stored workflow of a "ref" entry.
LoadOutcome(k) ==
    IF ~meta[k].present THEN [status |-> "KeyError", value |-> NoValue]
    ELSE IF meta[k].pass_by = "val"
         THEN [status |-> "ok", value |-> DataValue(Deserialize(ReadPayload(meta[k])))]
         ELSE [status |-> "ok", value |-> EngineOutput(Deserialize(ReadPayload(meta[k])))]

load(k) ==
    /\ ~closed
    /\ ret' = Call("load", k, LoadOutcome(k).status, LoadOutcome(k).value, NoArg)
    /\ UNCHANGED <<storeVars, destFs, scope, lastVal>>

\* a failed execution that throws the stored workflow away
LoadEngineFailureDropsEntry(k) ==
    /\ ~closed
    /\ meta[k].present /\ meta[k].pass_by = "ref"
    /\ meta' = [meta EXCEPT ![k] = Absent]
    /\ ret' = Call("load", k, "ReconstructionError", NoValue, NoArg)
    /\ UNCHANGED <<shm, files, ramUsed, diskUsed, scratch, closed, destFs,
                   scope, lastVal>>

\* the external engine fails while executing the stored workflow
LoadEngineFailure(k) ==
    /\ ~closed
    /\ meta[k].present /\ meta[k].pass_by = "ref"
    /\ ret' = Call("load", k, "ReconstructionError", NoValue, NoArg)
    /\ UNCHANGED <<storeVars, destFs, scope, lastVal>>

\* the caller gives up on the execution of the stored workflow: it is
\* cancelled, or it times out
Interruptions == {"CancelledError", "TimeoutError"}

LoadInterrupted(k, why) ==
    /\ ~closed
    /\ meta[k].present /\ meta[k].pass_by = "ref"
    /\ ret' = Call("load", k, why, NoValue, NoArg)
    /\ UNCHANGED <<storeVars, destFs, scope, lastVal>>

\* an engine that keeps what it produced and runs a stored workflow only once
EngineRunsMemoized(k) ==
    IF meta[k].present /\ meta[k].pass_by = "ref" /\ refLoads[k] = 0
    THEN [engineRuns EXCEPT ![k] = @ + 1] ELSE engineRuns

\* "Later, when loaded, the workflow is executed to recreate the model":
\* every load of a stored workflow graph runs it on the engine
EngineRunsAfterLoad(k) ==
    IF meta[k].present /\ meta[k].pass_by = "ref"
    THEN [engineRuns EXCEPT ![k] = @ + 1] ELSE engineRuns

RefLoadsAfterLoad(k) ==
    IF meta[k].present /\ meta[k].pass_by = "ref"
    THEN [refLoads EXCEPT ![k] = @ + 1] ELSE refLoads

\* the calls on one context with the engine's executions counted per entry
RefSave(k, data, use_ram, pass_by) ==
    /\ save(k, data, use_ram, pass_by)
    /\ engineRuns' = [engineRuns EXCEPT ![k] = 0]
    /\ refLoads' = [refLoads EXCEPT ![k] = 0]

RefLoad(k) ==
    /\ refLoads[k] < MaxLoads
    /\ load(k)
    /\ engineRuns' = EngineRunsAfterLoad(k)
    /\ refLoads' = RefLoadsAfterLoad(k)

RefLoadFailure(k) ==
    /\ refLoads[k] < MaxLoads
    /\ LoadEngineFailure(k)
    /\ engineRuns' = EngineRunsAfterLoad(k)
    /\ refLoads' = RefLoadsAfterLoad(k)

\* -------------------------------------------------------------- export_data
\* a check that exports workflow graphs like any other entry
ExportCheckAllowsRef(k, dest, overwrite) ==
    IF ~meta[k].present THEN "KeyError"
    ELSE IF dest \in DOMAIN destFs /\ ~overwrite THEN "FileExistsError"
    ELSE "ok"

\* a check that never looks at the destination
ExportCheckIgnoresExisting(k, dest, overwrite) ==
    IF ~meta[k].present THEN "KeyError"
    ELSE IF meta[k].pass_by = "ref" THEN "TypeError"
    ELSE "ok"

\* Raises: KeyError, TypeError (pass-by-reference data), FileExistsError
\* (destination exists and overwrite=False)
ExportCheck(k, dest, overwrite) ==
    IF ~meta[k].present THEN "KeyError"
    ELSE IF meta[k].pass_by = "ref" THEN "TypeError"
    ELSE IF dest \in DOMAIN destFs /\ ~overwrite THEN "FileExistsError"
    ELSE "ok"

\* an export that copies the data out and keeps the entry listed
MetaAfterExportKeepsEntry(k) == meta

\* "Exported data is removed from the ephemeral context"
MetaAfterExport(k) == [meta EXCEPT ![k] = Absent]

export_data(k, dest, overwrite) ==
    /\ ~closed
    /\ LET st == ExportCheck(k, dest, overwrite)
           e  == meta[k]
           a  == [NoArg EXCEPT !.dest = dest, !.overwrite = overwrite]
       IN IF st = "ok"
          THEN /\ destFs' = With(destFs, dest, ReadPayload(e))
               /\ shm' = ShmAfterRelease(e)
               /\ files' = FilesAfterRelease(e)
               /\ ramUsed' = RamAfterRelease(e)
               /\ diskUsed' = DiskAfterRelease(e)
               /\ meta' = MetaAfterExport(k)
               /\ lastVal' = [lastVal EXCEPT ![k] = NoData]
               /\ ret' = Call("export", k, "ok", NoValue, a)
               /\ UNCHANGED <<scratch, closed, scope>>
          ELSE /\ ret' = Call("export", k, st, NoValue, a)
               /\ UNCHANGED <<storeVars, destFs, scope, lastVal>>

\* ----------------------------------------------------------------- shutdown
\* a shutdown that leaves the temp files of the run on disk
FilesLeftBehind == files

\* Cleanup Operations: 1. clears all RAM, 2. deletes temp files
ShmAfterShutdown == NoSegments
FilesAfterShutdown == NoSegments

\* a second shutdown that trips over the directory it already removed
ShutdownStatusRaisesWhenClosed(wasClosed) ==
    IF wasClosed THEN "FileNotFoundError" ELSE "ok"

\* "Safe to call multiple times"
ShutdownStatus(wasClosed) == "ok"

\* everything shutdown() reclaims: the entries, both tiers, the counters and
\* the scratch directory
ReleaseAll ==
    /\ meta' = [k \in Keys |-> Absent]
    /\ shm' = ShmAfterShutdown
    /\ files' = FilesAfterShutdown
    /\ ramUsed' = 0
    /\ diskUsed' = 0
    /\ scratch' = FALSE
    /\ closed' = TRUE
    /\ lastVal' = [k \in Keys |-> NoData]

shutdown ==
    /\ ReleaseAll
    /\ ret' = Call("shutdown", "none", ShutdownStatus(closed), NoValue,
                   [NoArg EXCEPT !.again = closed, !.dropped = Cardinality(list_keys)])
    /\ UNCHANGED <<destFs, scope>>

\* ---------------------------------------------------------- context manager
__enter__ ==
    /\ scope = "unscoped"
    /\ ~closed
    /\ scope' = "entered"
    /\ ret' = Call("enter", "none", "ok", NoValue, NoArg)
    /\ UNCHANGED <<storeVars, destFs, lastVal>>

\* an __exit__ that cleans up only when the body ended normally
ExitSkipsCleanupOnError(exc) ==
    /\ scope = "entered"
    /\ scope' = "exited"
    /\ IF exc THEN UNCHANGED <<storeVars, lastVal>> ELSE ReleaseAll
    /\ ret' = Call("exit", "none", "ok", NoValue,
                   [NoArg EXCEPT !.exc = exc, !.again = closed,
                                 !.dropped = Cardinality(list_keys)])
    /\ UNCHANGED destFs

\* __exit__: the body of the with statement ended, normally (exc = FALSE) or
\* by an exception (exc = TRUE); either way the context is shut down.
__exit__(exc) ==
    /\ scope = "entered"
    /\ scope' = "exited"
    /\ ReleaseAll
    /\ ret' = Call("exit", "none", "ok", NoValue,
                   [NoArg EXCEPT !.exc = exc, !.again = closed,
                                 !.dropped = Cardinality(list_keys)])
    /\ UNCHANGED destFs

\* ------------------------------------------------------------ thread safety
\* "All WorkflowContext operations are thread-safe using file-based locking":
\* several workers share one context; an operation takes the context's file
\* lock, does its work in steps and gives the lock back.
\* a reader that does not take the file lock
CanReadUnlocked == TRUE

\* the file lock is there to take: a reader (get_usage, list_keys,
\* get_storage_info) waits for it like every other operation
CanRead == lock = "free"

\* the file lock is there to take, for save, load, export_data and shutdown
CanWrite == lock = "free"

\* save, first step under the lock: the payload is serialized, the tier
\* picked, the resource the key held released and the new one written
SaveBegin(t, k) ==
    /\ ~closed
    /\ pc[t].at = "idle"
    /\ CanWrite
    /\ LET bytes == Serialize(ThreadData(t))
           old   == meta[k]
           tier  == StorageType(TRUE, Len(bytes))
           shm1  == ShmAfterReplace(old)
           fil1  == FilesAfterReplace(old)
           h     == IF tier = "ram" THEN Alloc(DOMAIN shm1) ELSE Alloc(DOMAIN fil1)
       IN /\ shm' = IF tier = "ram" THEN With(shm1, h, bytes) ELSE shm1
          /\ files' = IF tier = "disk" THEN With(fil1, h, bytes) ELSE fil1
          /\ pc' = [pc EXCEPT ![t] = [at |-> "save_count", key |-> k,
                                      tier |-> tier, handle |-> h]]
    /\ lock' = t
    /\ UNCHANGED <<meta, ramUsed, diskUsed, scratch, closed, destFs, scope,
                   lastVal, ret, own, obs, seen>>

\* save, second step: the usage counters drop the replaced entry and take
\* the new payload
SaveCount(t) ==
    /\ pc[t].at = "save_count"
    /\ LET old  == meta[pc[t].key]
           size == Len(Serialize(ThreadData(t)))
       IN /\ ramUsed' = RamAfterReplace(old)
                          + (IF pc[t].tier = "ram" THEN size ELSE 0)
          /\ diskUsed' = DiskAfterReplace(old)
                          + (IF pc[t].tier = "disk" THEN size ELSE 0)
    /\ pc' = [pc EXCEPT ![t].at = "save_commit"]
    /\ UNCHANGED <<meta, shm, files, scratch, closed, destFs, scope, lastVal,
                   ret, lock, own, obs, seen>>

\* the histories once thread t's save of key k has returned
OwnAfterSave(t, k) ==
    [u \in Threads |->
        IF u = t THEN [key |-> k, superseded |-> FALSE]
        ELSE IF own[u].key = k THEN [own[u] EXCEPT !.superseded = TRUE]
        ELSE own[u]]

\* a save that returns to its caller without recording the entry
SaveCommitLosesEntry(t) ==
    /\ pc[t].at = "save_commit"
    /\ lastVal' = [lastVal EXCEPT ![pc[t].key] = ThreadData(t)]
    /\ own' = OwnAfterSave(t, pc[t].key)
    /\ pc' = [pc EXCEPT ![t] = Idle]
    /\ lock' = "free"
    /\ UNCHANGED <<meta, shm, files, ramUsed, diskUsed, scratch, closed, destFs,
                   scope, ret, obs, seen>>

\* save, last step: the metadata of the entry is recorded, the lock given
\* back and the call returns
SaveCommit(t) ==
    /\ pc[t].at = "save_commit"
    /\ meta' = [meta EXCEPT ![pc[t].key] =
                   NewEntry(pc[t].tier, "val", pc[t].handle,
                            Len(Serialize(ThreadData(t))))]
    /\ lastVal' = [lastVal EXCEPT ![pc[t].key] = ThreadData(t)]
    /\ own' = OwnAfterSave(t, pc[t].key)
    /\ pc' = [pc EXCEPT ![t] = Idle]
    /\ lock' = "free"
    /\ UNCHANGED <<shm, files, ramUsed, diskUsed, scratch, closed, destFs,
                   scope, ret, obs, seen>>

\* export_data of a stored entry, first step under the lock: the payload is
\* written to the destination and the resource it took is released
ExportBegin(t, k, dest) ==
    /\ ~closed
    /\ pc[t].at = "idle"
    /\ CanWrite
    /\ ExportCheck(k, dest, TRUE) = "ok"
    /\ destFs' = With(destFs, dest, ReadPayload(meta[k]))
    /\ shm' = ShmAfterRelease(meta[k])
    /\ files' = FilesAfterRelease(meta[k])
    /\ pc' = [pc EXCEPT ![t] = [Idle EXCEPT !.at = "export_commit", !.key = k]]
    /\ lock' = t
    /\ UNCHANGED <<meta, ramUsed, diskUsed, scratch, closed, scope, lastVal,
                   ret, own, obs, seen>>

\* export_data, last step: the counters drop the entry, the entry leaves the
\* context, the lock is given back
ExportCommit(t) ==
    /\ pc[t].at = "export_commit"
    /\ ramUsed' = RamAfterRelease(meta[pc[t].key])
    /\ diskUsed' = DiskAfterRelease(meta[pc[t].key])
    /\ meta' = MetaAfterExport(pc[t].key)
    /\ lastVal' = [lastVal EXCEPT ![pc[t].key] = NoData]
    /\ own' = [u \in Threads |-> IF own[u].key = pc[t].key THEN NoOwn ELSE own[u]]
    /\ pc' = [pc EXCEPT ![t] = Idle]
    /\ lock' = "free"
    /\ UNCHANGED <<shm, files, scratch, closed, destFs, scope, ret, obs, seen>>

\* shutdown, first step under the lock: RAM is cleared, temp files deleted
ShutdownBegin(t) ==
    /\ pc[t].at = "idle"
    /\ CanWrite
    /\ shm' = ShmAfterShutdown
    /\ files' = FilesAfterShutdown
    /\ pc' = [pc EXCEPT ![t] = [Idle EXCEPT !.at = "shutdown_commit"]]
    /\ lock' = t
    /\ UNCHANGED <<meta, ramUsed, diskUsed, scratch, closed, destFs, scope,
                   lastVal, ret, own, obs, seen>>

\* shutdown, last step: entries and counters are dropped, the scratch
\* directory removed, the lock given back
ShutdownCommit(t) ==
    /\ pc[t].at = "shutdown_commit"
    /\ meta' = [k \in Keys |-> Absent]
    /\ ramUsed' = 0
    /\ diskUsed' = 0
    /\ scratch' = FALSE
    /\ closed' = TRUE
    /\ lastVal' = [k \in Keys |-> NoData]
    /\ own' = [u \in Threads |-> NoOwn]
    /\ pc' = [pc EXCEPT ![t] = Idle]
    /\ lock' = "free"
    /\ UNCHANGED <<shm, files, destFs, scope, ret, obs, seen>>

\* the bytes get_storage_info reports on a tier for the keys list_keys shows
RECURSIVE SizeOn(_, _)
SizeOn(tier, K) ==
    IF K = {} THEN 0
    ELSE LET k == CHOOSE x \in K : TRUE
         IN (IF get_storage_info(k).storage_type = tier
             THEN get_storage_info(k).size ELSE 0) + SizeOn(tier, K \ {k})

\* a worker checks what the others have stored: get_usage(), list_keys(),
\* get_storage_info() of every key, and compares them
Observe(t) ==
    /\ pc[t].at = "idle"
    /\ CanRead
    /\ obs' = [made |-> TRUE,
               keys |-> Cardinality(list_keys),
               ram_agrees |-> get_usage.ram_usage_bytes = SizeOn("ram", list_keys),
               disk_agrees |->
                   get_usage.temp_disk_usage_bytes = SizeOn("disk", list_keys),
               count_agrees |->
                   get_usage.stored_keys_count = Cardinality(list_keys)]
    /\ UNCHANGED <<storeVars, destFs, scope, lastVal, ret, lock, pc, own, seen>>

\* load on the shared context, under the lock
ConcLoad(t, k) ==
    /\ ~closed
    /\ pc[t].at = "idle"
    /\ CanWrite
    /\ seen' = [after_own |-> own[t].key = k,
                superseded |-> own[t].key = k /\ own[t].superseded,
                status |-> LoadOutcome(k).status,
                own_data |-> LoadOutcome(k).value = DataValue(ThreadData(t))]
    /\ UNCHANGED <<storeVars, destFs, scope, lastVal, ret, lock, pc, own, obs>>

\* ----------------------------------------------------------- workflow tools
\* A workflow is its nodes and its links; a link is
\* [link_id, source_id, source_slot, target_id, target_slot, type].
Node(id, type, unique_id) == [id |-> id, type |-> type, unique_id |-> unique_id]

Link(id, source_id, source_slot, target_id, target_slot, type) ==
    [id |-> id, source_id |-> source_id, source_slot |-> source_slot,
     target_id |-> target_id, target_slot |-> target_slot, type |-> type]

\* the unique_id values given to DiscomfortPort nodes
Uids == {"a", "b"}

\* the workflows drawn: DiscomfortPort nodes 1 and 3 around node 2
NodeIds == {1, 2, 3}
PortIds == {1, 3}

NodesOf(u1, u3) ==
    {Node(1, "DiscomfortPort", u1), Node(2, "KSampler", "none"),
     Node(3, "DiscomfortPort", u3)}

\* the link from node s to node t: node 2 takes node 1 on its first input
\* and node 3 on its second, a DiscomfortPort has one input
LinkBetween(s, t) ==
    Link(3 * (s - 1) + t, s, 0, t, IF t = 2 /\ s = 3 THEN 1 ELSE 0, "LATENT")

AllLinks ==
    {LinkBetween(p[1], p[2]) : p \in {q \in NodeIds \X NodeIds : q[1] # q[2]}}

IdsOfNodes(g) == {n.id : n \in g.nodes}
InLinks(g, id) == {l \in g.links : l.target_id = id}
OutLinks(g, id) == {l \in g.links : l.source_id = id}

\* an order that lists the nodes by id whatever the links say
RECURSIVE TopoFromById(_, _, _)
TopoFromById(remaining, links, acc) ==
    IF remaining = {} THEN acc
    ELSE LET n == MinOf(remaining)
         IN TopoFromById(remaining \ {n}, links, Append(acc, n))

\* topological sorting: a node is taken once every node linked into it has
\* been taken; the sort stops short when the nodes left form a cycle
RECURSIVE TopoFrom(_, _, _)
TopoFrom(remaining, links, acc) ==
    LET ready == {n \in remaining :
                    \A l \in links : l.target_id = n => l.source_id \notin remaining}
    IN IF remaining = {} \/ ready = {} THEN acc
       ELSE LET n == MinOf(ready)
            IN TopoFrom(remaining \ {n}, links, Append(acc, n))

ExecutionOrder(g) == TopoFrom(IdsOfNodes(g), g.links, <<>>)

\* a validation that lets every workflow through
HasCycleNever(g) == FALSE

\* "Workflow contains cycles": no execution order covers every node
HasCycle(g) == Len(ExecutionOrder(g)) < Cardinality(IdsOfNodes(g))

\* a drawn workflow has no cycle and feeds each DiscomfortPort at most once
WellFormed(L) ==
    /\ ~HasCycle([nodes |-> NodesOf("a", "b"), links |-> L])
    /\ \A p \in PortIds : Cardinality({l \in L : l.target_id = p}) <= 1

Workflows ==
    {[nodes |-> NodesOf(u1, u3), links |-> L] :
        u1 \in Uids, u3 \in Uids, L \in {K \in SUBSET AllLinks : WellFormed(K)}}

\* input port -> node -> output port ("Uses "model" input, outputs
\* "latent""), and two input ports -> node ("Uses "model", "latent" inputs")
Chains ==
    {g \in Workflows :
        g.links \in {{LinkBetween(1, 2), LinkBetween(2, 3)},
                     {LinkBetween(1, 2), LinkBetween(3, 2)}}}

\* ---- workflows with Reroute nodes: node 1 has two outputs, nodes 2 and 3
\* are Reroute nodes (one input, one output), node 4 has two inputs
RerouteIds == {2, 3}

RerouteNodes ==
    {Node(1, "KSampler", "none"), Node(2, "Reroute", "none"),
     Node(3, "Reroute", "none"), Node(4, "VAEDecode", "none")}

NoSource == [id |-> 0, slot |-> 0]

\* the outputs a link may leave from
Sources ==
    {[id |-> 1, slot |-> 0], [id |-> 1, slot |-> 1],
     [id |-> 2, slot |-> 0], [id |-> 3, slot |-> 0]}

\* the inputs a link may enter, each with the id of the link that enters it
Sinks ==
    {[id |-> 2, slot |-> 0, link |-> 1], [id |-> 3, slot |-> 0, link |-> 2],
     [id |-> 4, slot |-> 0, link |-> 3], [id |-> 4, slot |-> 1, link |-> 4]}

SinkOf(id) == CHOOSE k \in Sinks : k.id = id

\* who feeds what: every input takes one output or nothing, and the two
\* Reroute nodes do not feed themselves or each other in a circle
Wirings ==
    {w \in [Sinks -> Sources \cup {NoSource}] :
        /\ \A r \in RerouteIds : w[SinkOf(r)].id # r
        /\ ~(w[SinkOf(2)].id = 3 /\ w[SinkOf(3)].id = 2)}

\* the data type a link from output src carries: that of the output of
\* node 1 it comes from, through the Reroute nodes on the way
RECURSIVE TagOf(_, _)
TagOf(w, src) ==
    IF src.id \notin RerouteIds
    THEN (IF src.slot = 0 THEN "LATENT" ELSE "IMAGE")
    ELSE IF w[SinkOf(src.id)] = NoSource THEN "*"
    ELSE TagOf(w, w[SinkOf(src.id)])

RerouteWorkflows ==
    {[nodes |-> RerouteNodes,
      links |-> {Link(k.link, w[k].id, w[k].slot, k.id, k.slot, TagOf(w, w[k])) :
                    k \in {j \in Sinks : w[j] # NoSource}}] : w \in Wirings}

WorkflowLists ==
    {<<g1, g2>> : g1 \in Workflows, g2 \in Workflows}
      \cup {<<g1, g2, g3>> : g1 \in Chains, g2 \in Chains, g3 \in Chains}
      \cup {<<g>> : g \in RerouteWorkflows}

\* ------------------------------------------------------ discover_port_nodes
Ports(g) == {n \in g.nodes : n.type = "DiscomfortPort"}

\* a DiscomfortPort nothing is connected to has no mode
DanglingMode == "NONE"

\* a resolver that looks at the incoming connections only
ModeOfByIncoming(g, id) ==
    IF InLinks(g, id) = {} THEN "INPUT" ELSE "OUTPUT"

\* INPUT: no incoming connections; OUTPUT: no outgoing connections;
\* PASSTHRU: both incoming and outgoing connections
ModeOf(g, id) ==
    IF InLinks(g, id) = {} /\ OutLinks(g, id) # {} THEN "INPUT"
    ELSE IF InLinks(g, id) # {} /\ OutLinks(g, id) = {} THEN "OUTPUT"
    ELSE IF InLinks(g, id) # {} /\ OutLinks(g, id) # {} THEN "PASSTHRU"
    ELSE DanglingMode

MaxOf(S) == CHOOSE x \in S : \A y \in S : y <= x

\* the type of a port is inferred from the link connected to it
PortInfo(g, id) ==
    [node_id |-> id,
     type |-> IF InLinks(g, id) \cup OutLinks(g, id) = {} THEN "none"
              ELSE (CHOOSE l \in InLinks(g, id) \cup OutLinks(g, id) : TRUE).type]

\* a map in which the first of two ports with the same unique_id stays
PortMapOfFirst(g, P) ==
    [u \in {n.unique_id : n \in P} |->
        PortInfo(g, MinOf({n.id : n \in {m \in P : m.unique_id = u}}))]

\* {unique_id: port_info} of the ports in P; of two ports with the same
\* unique_id the first one is overwritten
PortMapOf(g, P) ==
    [u \in {n.unique_id : n \in P} |->
        PortInfo(g, MaxOf({n.id : n \in {m \in P : m.unique_id = u}}))]

PortMap(g, mode) == PortMapOf(g, {n \in Ports(g) : ModeOf(g, n.id) = mode})

discover_port_nodes(i) ==
    /\ i \in DOMAIN wfs
    /\ gret' = [NoResult EXCEPT
                  !.op = "discover", !.index = i, !.status = "ok",
                  !.inputs = PortMap(wfs[i], "INPUT"),
                  !.outputs = PortMap(wfs[i], "OUTPUT"),
                  !.passthrus = PortMap(wfs[i], "PASSTHRU"),
                  !.unique_id_to_node = PortMapOf(wfs[i], Ports(wfs[i])),
                  !.execution_order = ExecutionOrder(wfs[i])]
    /\ UNCHANGED wfs

\* ------------------------------------------------------ remove_reroute_nodes
IsReroute(g, id) == \E n \in g.nodes : n.id = id /\ n.type = "Reroute"

NoLink == Link(0, 0, 0, 0, 0, "none")

\* a rewiring that looks one Reroute node back and no further
OriginOneHop(g, l) ==
    IF ~IsReroute(g, l.source_id) THEN l
    ELSE IF InLinks(g, l.source_id) = {} THEN NoLink
    ELSE CHOOSE u \in InLinks(g, l.source_id) : TRUE

\* the link that leaves the node feeding link l, looked up through the
\* Reroute nodes on the way; no link when a Reroute node on the way takes
\* nothing
RECURSIVE Origin(_, _)
Origin(g, l) ==
    IF ~IsReroute(g, l.source_id) THEN l
    ELSE IF InLinks(g, l.source_id) = {} THEN NoLink
    ELSE Origin(g, CHOOSE u \in InLinks(g, l.source_id) : TRUE)

\* "Removes Reroute nodes and rewires connections directly": a link into a
\* node that stays leaves from where its data came from
CleanLinks(g) ==
    {[l EXCEPT !.source_id = Origin(g, l).source_id,
               !.source_slot = Origin(g, l).source_slot] :
        l \in {k \in g.links : ~IsReroute(g, k.target_id) /\ Origin(g, k) # NoLink}}

CleanNodes(g) == {n \in g.nodes : n.type # "Reroute"}

\* "Returns a clean workflow with all Reroute nodes removed"
GetWorkflowWithReroutesRemoved(g) ==
    [nodes |-> CleanNodes(g), links |-> CleanLinks(g)]

\* returns (clean_nodes, clean_links, link_id_map); a rewired link keeps the
\* id of the link that entered its target
remove_reroute_nodes(i) ==
    /\ wfs # NoWorkflows
    /\ gret' = [NoResult EXCEPT
                  !.op = "remove_reroute_nodes", !.index = i, !.status = "ok",
                  !.clean_nodes = CleanNodes(wfs[i]),
                  !.clean_links = CleanLinks(wfs[i]),
                  !.link_id_map = [id \in {l.id : l \in CleanLinks(wfs[i])} |-> id]]
    /\ UNCHANGED wfs

\* ------------------------------------------------- _prune_workflow_to_output
\* a closure that stops at the nodes linked straight into the target
AncestorsOneHop(g, S) ==
    S \cup {l.source_id : l \in {k \in g.links : k.target_id \in S}}

\* "only necessary nodes": the nodes in S and every node linked into one of
\* them, over and over
RECURSIVE Ancestors(_, _)
Ancestors(g, S) ==
    LET more == S \cup {l.source_id : l \in {k \in g.links : k.target_id \in S}}
    IN IF more = S THEN S ELSE Ancestors(g, more)

\* a pruning that leaves the workflow as it was
PrunedKeepsAll(g, target) == g

\* "Creates a minimal workflow that generates only a specific output"
Pruned(g, target) ==
    LET needed == Ancestors(g, {target})
    IN [nodes |-> {n \in g.nodes : n.id \in needed},
        links |-> {l \in g.links : l.source_id \in needed /\ l.target_id \in needed}]

_prune_workflow_to_output(i, target_output_unique_id) ==
    /\ wfs # NoWorkflows
    /\ target_output_unique_id \in DOMAIN PortMap(wfs[i], "OUTPUT")
    /\ gret' = [NoResult EXCEPT
                  !.op = "_prune_workflow_to_output", !.index = i, !.status = "ok",
                  !.target_output_unique_id = target_output_unique_id,
                  !.pruned_workflow =
                      Pruned(wfs[i],
                             PortMap(wfs[i], "OUTPUT")[target_output_unique_id].node_id)]
    /\ UNCHANGED wfs

\* what the engine gives at node id of workflow g: a function of the node
\* and of what its inputs receive, whatever the function is
RECURSIVE ValueAt(_, _)
ValueAt(g, id) ==
    [node |-> CHOOSE n \in g.nodes : n.id = id,
     inputs |-> {<<l.target_slot, l.source_slot, ValueAt(g, l.source_id)>> :
                    l \in InLinks(g, id)}]

\* --------------------------------------------------------- stitch_workflows
MaxId(g) == MaxOf({0} \cup IdsOfNodes(g) \cup {l.id : l \in g.links})

\* the offset of the next workflow: one more than the largest node or link
\* id in use in the workflows renumbered so far
Offset(prev) == 1 + MaxOf({MaxId(prev[i]) : i \in DOMAIN prev})

\* a renumbering that moves the nodes and leaves the link ids as they were
ShiftNodesOnly(g, d) ==
    [nodes |-> {[n EXCEPT !.id = @ + d] : n \in g.nodes},
     links |-> {[l EXCEPT !.source_id = @ + d, !.target_id = @ + d] :
                   l \in g.links}]

\* 1. "Renumbers all nodes and links to avoid conflicts"
Shift(g, d) ==
    [nodes |-> {[n EXCEPT !.id = @ + d] : n \in g.nodes},
     links |-> {[l EXCEPT !.id = @ + d, !.source_id = @ + d,
                          !.target_id = @ + d] : l \in g.links}]

RECURSIVE Renumber(_)
Renumber(ws) ==
    IF Len(ws) <= 1 THEN ws
    ELSE LET prev == Renumber(SubSeq(ws, 1, Len(ws) - 1))
         IN Append(prev, Shift(ws[Len(ws)], Offset(prev)))

UnionOf(R) ==
    [nodes |-> UNION {R[i].nodes : i \in DOMAIN R},
     links |-> UNION {R[i].links : i \in DOMAIN R}]

\* connections in which an output serves one input only, that of the last
\* workflow taking it
JoinsLastInput(R) ==
    LET ins == [i \in DOMAIN R |-> PortMap(R[i], "INPUT")]
        outs == [i \in DOMAIN R |-> PortMap(R[i], "OUTPUT")]
        from(j, u) == {i \in DOMAIN R \ {j} : u \in DOMAIN outs[i]}
    IN {[unique_id |-> p[2],
         input |-> ins[p[1]][p[2]].node_id,
         output |-> outs[MaxOf(from(p[1], p[2]))][p[2]].node_id] :
           p \in {q \in (DOMAIN R) \X Uids :
                     /\ q[2] \in DOMAIN ins[q[1]]
                     /\ from(q[1], q[2]) # {}
                     /\ \A k \in DOMAIN R :
                           q[2] \in DOMAIN ins[k] => k <= q[1]}}

\* the connections: every input port whose unique_id another workflow
\* outputs, with that output port; one output may serve the inputs of
\* several workflows ("model"), and of several workflows with such an output
\* the last one stays
Joins(R) ==
    LET ins == [i \in DOMAIN R |-> PortMap(R[i], "INPUT")]
        outs == [i \in DOMAIN R |-> PortMap(R[i], "OUTPUT")]
        \* the workflows other than workflow j that output unique_id u
        from(j, u) == {i \in DOMAIN R \ {j} : u \in DOMAIN outs[i]}
    IN {[unique_id |-> p[2],
         input |-> ins[p[1]][p[2]].node_id,
         output |-> outs[MaxOf(from(p[1], p[2]))][p[2]].node_id] :
           p \in {q \in (DOMAIN R) \X Uids :
                     /\ q[2] \in DOMAIN ins[q[1]]
                     /\ from(q[1], q[2]) # {}}}

JoinedInputs(R) == {j.input : j \in Joins(R)}

JoinedOutputs(R) == {j.output : j \in Joins(R)}

RemoveNodes(g, ids) ==
    [nodes |-> {n \in g.nodes : n.id \notin ids},
     links |-> {l \in g.links : l.source_id \notin ids /\ l.target_id \notin ids}]

\* 2. "Connects workflows via shared unique_id values": what feeds output
\* port o is linked to everything input port i feeds, and the input port
\* goes; the output port stays for the other inputs it serves
JoinOne(g, o, i) ==
    LET rewired == {[c EXCEPT !.source_id = l.source_id,
                              !.source_slot = l.source_slot] :
                        c \in OutLinks(g, i), l \in InLinks(g, o)}
    IN RemoveNodes([nodes |-> g.nodes, links |-> g.links \cup rewired], {i})

RECURSIVE JoinAll(_, _)
JoinAll(g, js) ==
    IF js = {} THEN g
    ELSE LET j == CHOOSE x \in js : TRUE
         IN JoinAll(JoinOne(g, j.output, j.input), js \ {j})

\* a retained map that also lists the connected ports
RetainedWithJoined(R, mode) ==
    LET maps == [i \in DOMAIN R |-> PortMap(R[i], mode)]
    IN [u \in UNION {DOMAIN maps[i] : i \in DOMAIN R} |->
          maps[MaxOf({i \in DOMAIN R : u \in DOMAIN maps[i]})][u]]

\* the ports of one mode that no other workflow connects to; of several
\* workflows with such a port the last one stays
Retained(R, mode) ==
    LET maps == [i \in DOMAIN R |-> PortMap(R[i], mode)]
        joined == JoinedInputs(R) \cup JoinedOutputs(R)
        unjoined == [i \in DOMAIN R |->
                        {u \in DOMAIN maps[i] : maps[i][u].node_id \notin joined}]
    IN [u \in UNION {unjoined[i] : i \in DOMAIN R} |->
          maps[MaxOf({i \in DOMAIN R : u \in unjoined[i]})][u]]

\* delete_input_ports / delete_output_ports: "Remove unconnected input
\* (output) ports from result"
Deleted(R, delete_input_ports, delete_output_ports) ==
    LET ins == Retained(R, "INPUT")
        outs == Retained(R, "OUTPUT")
    IN (IF delete_input_ports
        THEN {ins[u].node_id : u \in DOMAIN ins} ELSE {})
         \cup
       (IF delete_output_ports
        THEN {outs[u].node_id : u \in DOMAIN outs} ELSE {})

\* the workflows as they are stitched: without their Reroute nodes
Cleaned(ws) == [i \in DOMAIN ws |-> GetWorkflowWithReroutesRemoved(ws[i])]

Stitched(ws, delete_input_ports, delete_output_ports) ==
    LET R == Renumber(Cleaned(ws))
    IN RemoveNodes(JoinAll(UnionOf(R), Joins(R)),
                   JoinedOutputs(R)
                     \cup Deleted(R, delete_input_ports, delete_output_ports))

\* a workflow with a DiscomfortPort nothing is connected to is not stitched
HasDanglingPort(g) == \E n \in Ports(g) : ModeOf(g, n.id) = DanglingMode

\* the call raises: nothing is returned
Raised(status, delete_input_ports, delete_output_ports) ==
    [NoResult EXCEPT !.op = "stitch", !.status = status,
                     !.delete_input_ports = delete_input_ports,
                     !.delete_output_ports = delete_output_ports]

\* a result whose maps still list the ports that were connected
StitchResultListsJoined(ws, delete_input_ports, delete_output_ports) ==
    LET R == Renumber(Cleaned(ws))
        g == Stitched(ws, delete_input_ports, delete_output_ports)
    IN IF \E i \in DOMAIN ws : HasDanglingPort(ws[i])
       THEN Raised("ValueError", delete_input_ports, delete_output_ports)
       ELSE IF HasCycle(g)
       THEN Raised("NetworkXUnfeasible", delete_input_ports, delete_output_ports)
       ELSE [Raised("ok", delete_input_ports, delete_output_ports) EXCEPT
               !.stitched_workflow = g,
               !.inputs = RetainedWithJoined(R, "INPUT"),
               !.outputs = RetainedWithJoined(R, "OUTPUT"),
               !.execution_order = ExecutionOrder(g)]

StitchResult(ws, delete_input_ports, delete_output_ports) ==
    LET R == Renumber(Cleaned(ws))
        g == Stitched(ws, delete_input_ports, delete_output_ports)
    IN IF \E i \in DOMAIN ws : HasDanglingPort(ws[i])
       THEN Raised("ValueError", delete_input_ports, delete_output_ports)
       ELSE IF HasCycle(g)
       THEN Raised("NetworkXUnfeasible", delete_input_ports, delete_output_ports)
       ELSE [Raised("ok", delete_input_ports, delete_output_ports) EXCEPT
               !.stitched_workflow = g,
               !.inputs = IF delete_input_ports THEN NoPorts
                          ELSE Retained(R, "INPUT"),
               !.outputs = IF delete_output_ports THEN NoPorts
                           ELSE Retained(R, "OUTPUT"),
               !.execution_order = ExecutionOrder(g)]

stitch_workflows(delete_input_ports, delete_output_ports) ==
    /\ wfs # NoWorkflows
    /\ gret' = StitchResult(wfs, delete_input_ports, delete_output_ports)
    /\ UNCHANGED wfs

\* ------------------------------------------------------------ ComfyConnector
\* State Values
States == {"uninit", "initializing", "ready", "error", "killed"}

\* ComfyConnector.create: "Only one instance per process"; the instance is
\* made and then initialized
create ==
    /\ instance = 0
    /\ Len(state) < MaxInstances
    /\ state' = Append(state, "uninit")
    /\ instance' = Len(state) + 1
    /\ UNCHANGED <<attempts, runs, ephemeral>>

\* _ensure_initialized on an instance not yet initialized: uninit ->
\* initializing
EnsureInitialized ==
    /\ instance # 0
    /\ state[instance] = "uninit"
    /\ state' = [state EXCEPT ![instance] = "initializing"]
    /\ attempts' = 1
    /\ UNCHANGED <<instance, runs, ephemeral>>

\* "Retry logic": the server did not come up, another attempt is made
StartAttempt ==
    /\ instance # 0
    /\ state[instance] = "initializing"
    /\ attempts < MaxAttempts
    /\ attempts' = attempts + 1
    /\ UNCHANGED <<state, instance, runs, ephemeral>>

\* the server is up and the test workflow ran: initializing -> ready
Initialized ==
    /\ instance # 0
    /\ state[instance] = "initializing"
    /\ state' = [state EXCEPT ![instance] = "ready"]
    /\ UNCHANGED <<instance, attempts, runs, ephemeral>>

\* RuntimeError "Initialization failed": initializing -> error, once the
\* attempts are used up
InitializationFailed ==
    /\ instance # 0
    /\ state[instance] = "initializing"
    /\ attempts = MaxAttempts
    /\ state' = [state EXCEPT ![instance] = "error"]
    /\ UNCHANGED <<instance, attempts, runs, ephemeral>>

run_workflow ==
    /\ instance # 0
    /\ state[instance] = "ready"
    /\ runs < MaxRuns
    /\ runs' = runs + 1
    /\ UNCHANGED <<state, instance, attempts, ephemeral>>

\* upload_data(..., is_ephemeral=True)
upload_data ==
    /\ instance # 0
    /\ state[instance] = "ready"
    /\ ephemeral < MaxRuns
    /\ ephemeral' = ephemeral + 1
    /\ UNCHANGED <<state, instance, attempts, runs>>

\* a shutdown that puts the instance back where it started
kill_api_restarts ==
    /\ instance # 0
    /\ state[instance] \in {"ready", "error"}
    /\ state' = [state EXCEPT ![instance] = "uninit"]
    /\ attempts' = 0
    /\ ephemeral' = 0
    /\ UNCHANGED <<instance, runs>>

\* kill_api: ready -> killed, error -> killed; the temp files go and the
\* singleton is reset, which "allows fresh initialization" by a new create
kill_api ==
    /\ instance # 0
    /\ state[instance] \in {"ready", "error"}
    /\ state' = [state EXCEPT ![instance] = "killed"]
    /\ instance' = 0
    /\ attempts' = 0
    /\ ephemeral' = 0
    /\ UNCHANGED runs

Next ==
    \/ \E k \in Keys, in \in Inputs, use_ram \in BOOLEAN :
          save(k, in[1], use_ram, in[2])
            /\ UNCHANGED <<concVars, refVars, graphVars, connVars>>
    \/ \E k \in Keys, in \in Inputs :
          SaveMemoryError(k, in[1], in[2])
            /\ UNCHANGED <<concVars, refVars, graphVars, connVars>>
    \/ \E k \in Keys : load(k) /\ UNCHANGED <<concVars, refVars, graphVars, connVars>>
    \/ \E k \in Keys :
          LoadEngineFailure(k) /\ UNCHANGED <<concVars, refVars, graphVars, connVars>>
    \/ \E k \in Keys, why \in Interruptions :
          LoadInterrupted(k, why) /\ UNCHANGED <<concVars, refVars, graphVars, connVars>>
    \/ \E k \in Keys, dest \in Dests, overwrite \in BOOLEAN :
          export_data(k, dest, overwrite)
            /\ UNCHANGED <<concVars, refVars, graphVars, connVars>>
    \/ shutdown /\ UNCHANGED <<concVars, refVars, graphVars, connVars>>
    \/ __enter__ /\ UNCHANGED <<concVars, refVars, graphVars, connVars>>
    \/ \E exc \in BOOLEAN :
          __exit__(exc) /\ UNCHANGED <<concVars, refVars, graphVars, connVars>>

Spec == Init /\ [][Next]_vars

\* workers sharing one context: every operation runs under the file lock
ConcInit ==
    /\ meta = [k \in Keys |-> Absent]
    /\ shm = NoSegments
    /\ files = NoSegments
    /\ ramUsed = 0
    /\ diskUsed = 0
    /\ scratch = TRUE
    /\ closed = FALSE
    /\ destFs = NoSegments
    /\ scope = "unscoped"
    /\ lastVal = [k \in Keys |-> NoData]
    /\ ret = Call("init", "none", "ok", NoValue, NoArg)
    /\ ConcIdle
    /\ RefIdle
    /\ GraphIdle
    /\ ConnIdle

ConcNext ==
    \/ \E t \in Threads, k \in Keys :
          SaveBegin(t, k) /\ UNCHANGED <<refVars, graphVars, connVars>>
    \/ \E t \in Threads : SaveCount(t) /\ UNCHANGED <<refVars, graphVars, connVars>>
    \/ \E t \in Threads : SaveCommit(t) /\ UNCHANGED <<refVars, graphVars, connVars>>
    \/ \E t \in Threads, k \in Keys, dest \in Dests :
          ExportBegin(t, k, dest) /\ UNCHANGED <<refVars, graphVars, connVars>>
    \/ \E t \in Threads : ExportCommit(t) /\ UNCHANGED <<refVars, graphVars, connVars>>
    \/ \E t \in Threads : ShutdownBegin(t) /\ UNCHANGED <<refVars, graphVars, connVars>>
    \/ \E t \in Threads : ShutdownCommit(t) /\ UNCHANGED <<refVars, graphVars, connVars>>
    \/ \E t \in Threads : Observe(t) /\ UNCHANGED <<refVars, graphVars, connVars>>
    \/ \E t \in Threads, k \in Keys :
          ConcLoad(t, k) /\ UNCHANGED <<refVars, graphVars, connVars>>

SpecConc == ConcInit /\ [][ConcNext]_vars

\* one caller, with the engine's executions counted
RefNext ==
    \/ \E k \in Keys, in \in Inputs, use_ram \in BOOLEAN :
          RefSave(k, in[1], use_ram, in[2]) /\ UNCHANGED <<concVars, graphVars, connVars>>
    \/ \E k \in Keys : RefLoad(k) /\ UNCHANGED <<concVars, graphVars, connVars>>
    \/ \E k \in Keys : RefLoadFailure(k) /\ UNCHANGED <<concVars, graphVars, connVars>>

SpecRef == Init /\ [][RefNext]_vars

\* WorkflowTools on a list of workflows
GraphInit ==
    /\ meta = [k \in Keys |-> Absent]
    /\ shm = NoSegments
    /\ files = NoSegments
    /\ ramUsed = 0
    /\ diskUsed = 0
    /\ scratch = TRUE
    /\ closed = FALSE
    /\ destFs = NoSegments
    /\ scope = "unscoped"
    /\ lastVal = [k \in Keys |-> NoData]
    /\ ret = Call("init", "none", "ok", NoValue, NoArg)
    /\ ConcIdle
    /\ RefIdle
    /\ wfs \in WorkflowLists
    /\ gret = NoResult
    /\ ConnIdle

\* WorkflowTools keeps nothing between calls: one call is followed on each
\* list of workflows drawn
GraphNext ==
    \/ \E i \in DOMAIN wfs :
          /\ gret = NoResult
          /\ discover_port_nodes(i)
          /\ UNCHANGED <<storeVars, destFs, scope, lastVal, ret, concVars, refVars,
                         connVars>>
    \/ \E delete_input_ports \in BOOLEAN, delete_output_ports \in BOOLEAN :
          /\ gret = NoResult
          /\ stitch_workflows(delete_input_ports, delete_output_ports)
          /\ UNCHANGED <<storeVars, destFs, scope, lastVal, ret, concVars, refVars,
                         connVars>>
    \/ \E i \in DOMAIN wfs :
          /\ gret = NoResult
          /\ remove_reroute_nodes(i)
          /\ UNCHANGED <<storeVars, destFs, scope, lastVal, ret, concVars, refVars,
                         connVars>>
    \/ \E i \in DOMAIN wfs, u \in Uids :
          /\ gret = NoResult
          /\ _prune_workflow_to_output(i, u)
          /\ UNCHANGED <<storeVars, destFs, scope, lastVal, ret, concVars, refVars,
                         connVars>>

SpecGraph == GraphInit /\ [][GraphNext]_vars

\* ---- the connector alone
ConnNext ==
    \/ create /\ UNCHANGED <<storeVars, destFs, scope, lastVal, ret, concVars,
                             refVars, graphVars>>
    \/ EnsureInitialized
          /\ UNCHANGED <<storeVars, destFs, scope, lastVal, ret, concVars,
                         refVars, graphVars>>
    \/ StartAttempt
          /\ UNCHANGED <<storeVars, destFs, scope, lastVal, ret, concVars,
                         refVars, graphVars>>
    \/ Initialized
          /\ UNCHANGED <<storeVars, destFs, scope, lastVal, ret, concVars,
                         refVars, graphVars>>
    \/ InitializationFailed
          /\ UNCHANGED <<storeVars, destFs, scope, lastVal, ret, concVars,
                         refVars, graphVars>>
    \/ run_workflow
          /\ UNCHANGED <<storeVars, destFs, scope, lastVal, ret, concVars,
                         refVars, graphVars>>
    \/ upload_data
          /\ UNCHANGED <<storeVars, destFs, scope, lastVal, ret, concVars,
                         refVars, graphVars>>
    \/ kill_api
          /\ UNCHANGED <<storeVars, destFs, scope, lastVal, ret, concVars,
                         refVars, graphVars>>

SpecConn == ConcInit /\ [][ConnNext]_vars

\* ------------------------------------------------------------- properties
RamKeys == {k \in Keys : meta[k].present /\ meta[k].storage_type = "ram"}
DiskKeys == {k \in Keys : meta[k].present /\ meta[k].storage_type = "disk"}

RECURSIVE SumSizes(_)
SumSizes(S) ==
    IF S = {} THEN 0
    ELSE LET k == CHOOSE x \in S : TRUE IN meta[k].size + SumSizes(S \ {k})

\* every live segment and file belongs to exactly one listed entry, and the
\* usage counters count exactly the listed entries
NothingLeaked ==
    /\ DOMAIN shm = {meta[k].handle : k \in RamKeys}
    /\ DOMAIN files = {meta[k].handle : k \in DiskKeys}
    /\ \A j, k \in RamKeys : meta[j].handle = meta[k].handle => j = k
    /\ \A j, k \in DiskKeys : meta[j].handle = meta[k].handle => j = k
    /\ ramUsed = SumSizes(RamKeys)
    /\ diskUsed = SumSizes(DiskKeys)

PayloadOf(k) == ReadPayload(meta[k])

\* C1: round trip.  While a completed by-value save of a key is in force (no
\* later save or export of the key, no shutdown), every load of the key
\* succeeds and returns exactly the data that was saved, on either tier.
C1_RoundTrip ==
    (ret.op = "load" /\ lastVal[ret.key] # NoData)
        => (ret.status = "ok" /\ ret.value = DataValue(lastVal[ret.key]))

\* a load has just returned data from the disk tier while the other key sits
\* on the RAM tier
C1_Witness ==
    /\ ret.op = "load" /\ ret.status = "ok" /\ ret.key = "k2"
    /\ ret.value = DataValue(MaxData)
    /\ meta["k2"].storage_type = "disk"
    /\ meta["k1"].storage_type = "ram" /\ lastVal["k1"] # NoData

\* C2: capacity fallback.  A by-value save with use_ram=True whose serialized
\* size exceeds the remaining RAM budget raises nothing: it completes and the
\* entry is on the disk tier.
C2_CapacityFallback ==
    [][\A k \in Keys :
          (/\ ret'.op = "save" /\ ret'.key = k
           /\ ret'.arg.use_ram /\ ret'.arg.pass_by = "val"
           /\ ~FitsInRam(Len(Serialize(ret'.arg.data))))
          => (ret'.status = "ok" /\ get_storage_info(k)'.storage_type = "disk")]_vars

\* C3: last write wins.  A completed save under a key that is present leaves
\* one entry for the key with the new payload, size, tier (disk when
\* use_ram=False) and pass_by, a load of it
\* answers from the new payload, the number of keys is unchanged, and nothing
\* of the replaced entry stays allocated or counted.
C3_LastWriteWins ==
    [][\A k \in Keys :
          (ret'.op = "save" /\ ret'.key = k /\ ret'.status = "ok" /\ meta[k].present)
          => (/\ meta'[k].present
              /\ meta'[k].pass_by = ret'.arg.pass_by
              /\ meta'[k].size = Len(Serialize(ret'.arg.data))
              /\ meta'[k].storage_type \in {"ram", "disk"}
              /\ ~ret'.arg.use_ram => meta'[k].storage_type = "disk"
              /\ PayloadOf(k)' = Serialize(ret'.arg.data)
              /\ LoadOutcome(k)' =
                    [status |-> "ok",
                     value |-> IF ret'.arg.pass_by = "val"
                               THEN DataValue(ret'.arg.data)
                               ELSE EngineOutput(ret'.arg.data)]
              /\ list_keys' = list_keys
              /\ NothingLeaked')]_vars

\* a save has just replaced an entry with one on the other tier, passed the
\* other way
C3_Witness ==
    /\ ret.op = "save" /\ ret.status = "ok" /\ ret.arg.overwrote
    /\ ret.arg.pass_by = "ref"
    /\ meta[ret.key].storage_type = "disk"
    /\ Cardinality(list_keys) = 2

\* C4: a load of a key that is not present raises KeyError, returns nothing
\* and changes nothing: entries, tiers, counters and destinations are as
\* before and the store is still open.
C4_LoadMissing ==
    [][\A k \in Keys :
          (ret'.op = "load" /\ ret'.key = k /\ ~meta[k].present)
          => (/\ ret'.status = "KeyError"
              /\ ret'.value = NoValue
              /\ storeVars' = storeVars
              /\ destFs' = destFs
              /\ ~closed')]_vars

\* a load has just failed on one key while the other key holds an entry
C4_Witness ==
    /\ ret.op = "load" /\ ret.status = "KeyError"
    /\ ~meta[ret.key].present
    /\ list_keys # {}

\* C5: export_data of a "ref" entry raises TypeError and leaves the entry in
\* place: it is still listed, a load of it still reaches the engine, and the
\* store and the destination are unchanged.
C5_ExportReference ==
    [][\A k \in Keys :
          (ret'.op = "export" /\ ret'.key = k /\ meta[k].present /\ meta[k].pass_by = "ref")
          => (/\ ret'.status = "TypeError"
              /\ storeVars' = storeVars
              /\ destFs' = destFs
              /\ k \in list_keys'
              /\ LoadOutcome(k)' = [status |-> "ok",
                                     value |-> EngineOutput(Deserialize(PayloadOf(k)))])]_vars

\* an export of a listed "ref" entry has just been refused
C5_Witness ==
    /\ ret.op = "export" /\ ret.status = "TypeError"
    /\ ret.key \in list_keys /\ meta[ret.key].pass_by = "ref"

\* C6: a completed export_data moves the entry out: the destination holds its
\* payload, the key is no longer listed, a load of it raises KeyError, and
\* the entry's bytes have left the usage counter of its tier.
C6_ExportMoves ==
    [][\A k \in Keys :
          (ret'.op = "export" /\ ret'.key = k /\ ret'.status = "ok")
          => (/\ meta[k].present /\ meta[k].pass_by = "val"
              /\ Deserialize(destFs'[ret'.arg.dest]) = lastVal[k]
              /\ k \notin list_keys'
              /\ LoadOutcome(k)'.status = "KeyError"
              /\ get_usage'.ram_usage_bytes = ramUsed -
                    (IF meta[k].storage_type = "ram" THEN meta[k].size ELSE 0)
              /\ get_usage'.temp_disk_usage_bytes = diskUsed -
                    (IF meta[k].storage_type = "disk" THEN meta[k].size ELSE 0)
              /\ get_usage'.stored_keys_count = Cardinality(list_keys) - 1
              /\ NothingLeaked')]_vars

\* an export has just completed, the other key is still stored and the
\* counters are back to that key alone
C6_Witness ==
    /\ ret.op = "export" /\ ret.status = "ok"
    /\ ret.key \notin list_keys
    /\ list_keys # {}
    /\ ramUsed + diskUsed > 0

\* C7: export_data of a "val" entry to a destination that exists raises
\* FileExistsError when overwrite=False, leaving the entry, its tier, the
\* counters and the destination file untouched; with overwrite=True it
\* completes and the destination holds the entry's payload.
C7_ExportExisting ==
    [][\A k \in Keys, d \in Dests :
          (/\ ret'.op = "export" /\ ret'.key = k /\ ret'.arg.dest = d
           /\ meta[k].present /\ meta[k].pass_by = "val"
           /\ d \in DOMAIN destFs)
          => IF ret'.arg.overwrite
             THEN /\ ret'.status = "ok"
                  /\ destFs'[d] = PayloadOf(k)
                  /\ k \notin list_keys'
             ELSE /\ ret'.status = "FileExistsError"
                  /\ storeVars' = storeVars
                  /\ destFs' = destFs]_vars

\* an export without overwrite has just been refused: the entry is listed
\* and the file that was at the destination is still there
C7_Witness ==
    /\ ret.op = "export" /\ ret.status = "FileExistsError"
    /\ ~ret.arg.overwrite
    /\ ret.key \in list_keys
    /\ destFs[ret.arg.dest] = Preexisting

\* C8: after shutdown() the store holds no entry, both usage counters are
\* zero, no shared-memory segment and no scratch file is left, and the
\* scratch directory is gone.
C8_ShutdownReleasesAll ==
    ret.op = "shutdown"
        => (/\ list_keys = {}
            /\ get_usage.ram_usage_bytes = 0
            /\ get_usage.temp_disk_usage_bytes = 0
            /\ get_usage.stored_keys_count = 0
            /\ shm = NoSegments
            /\ files = NoSegments
            /\ ~scratch
            /\ closed)

\* a first shutdown has just dropped two entries
C8_Witness ==
    /\ ret.op = "shutdown" /\ ~ret.arg.again
    /\ ret.arg.dropped = 2

\* C9: shutdown() on a store that is already shut down raises nothing and
\* leaves the store exactly as it was.
C9_ShutdownIdempotent ==
    [][(closed /\ ret'.op = "shutdown")
          => (ret'.status = "ok" /\ storeVars' = storeVars)]_vars

\* a repeated shutdown has just returned
C9_Witness ==
    /\ ret.op = "shutdown" /\ ret.arg.again /\ ret.status = "ok"
    /\ closed

\* C10: once the with-statement has been left, by normal completion or by an
\* exception, the store is shut down: no entry, no segment, no scratch file,
\* no scratch directory, counters at zero.
C10_ScopedCleanup ==
    scope = "exited"
        => (/\ closed
            /\ list_keys = {}
            /\ shm = NoSegments
            /\ files = NoSegments
            /\ ramUsed = 0
            /\ diskUsed = 0
            /\ ~scratch)

\* the body has just been left by an exception while two entries were stored
C10_Witness ==
    /\ scope = "exited" /\ ret.op = "exit"
    /\ ret.arg.exc /\ ret.arg.dropped = 2
\* C11: usage accounting.  In every state between calls get_usage() reports
\* as RAM bytes the sum of the sizes of the entries on the RAM tier, as disk
\* bytes the sum of the sizes of the entries on the disk tier and as count the
\* number of keys list_keys() returns, each size being that of the payload
\* the entry holds now.
C11_UsageAccounting ==
    /\ get_usage.ram_usage_bytes = SumSizes(RamKeys)
    /\ get_usage.temp_disk_usage_bytes = SumSizes(DiskKeys)
    /\ get_usage.stored_keys_count = Cardinality(list_keys)
    /\ \A k \in list_keys : get_storage_info(k).size = Len(PayloadOf(k))

\* an export has just taken one of two entries out and the counters show
\* the one that is left
C11_Witness ==
    /\ ret.op = "export" /\ ret.status = "ok"
    /\ Cardinality(list_keys) = 1
    /\ ramUsed > 0
    /\ diskUsed = 0
\* C12: atomic visibility under concurrency.  While workers run save,
\* export_data and shutdown on a shared context, a reader of get_usage(),
\* list_keys() and get_storage_info() never sees a half-written entry: what
\* every reader saw had the RAM bytes, the disk bytes and the key count of
\* get_usage() agree with the entries listed, and whenever the file lock is
\* free every listed entry is counted and backed by its resource and nothing
\* else is.
C12_AtomicVisibility ==
    /\ obs.ram_agrees /\ obs.disk_agrees /\ obs.count_agrees
    /\ lock = "free" => NothingLeaked

\* a reader saw two entries, and now a save is half-way: its bytes are
\* counted and its entry is not yet recorded
C12_Witness ==
    /\ obs.made /\ obs.keys = Cardinality(Keys)
    /\ \E t \in Threads :
          /\ pc[t].at = "save_commit"
          /\ ~NothingLeaked

\* C13: per-key linearizability.  A load of a key by a worker whose own save
\* of that key has completed (no export of the key and no shutdown since)
\* succeeds and returns the data the worker saved, or, when another worker's
\* save of the key completed after it, that save's data; it never raises
\* KeyError and never returns what the key held before.
C13_PerKeyLinearizable ==
    seen.after_own =>
        /\ seen.status = "ok"
        /\ seen.own_data \/ seen.superseded
        /\ seen.superseded => ~seen.own_data

\* a worker loaded its key after another worker's later save of it and got
\* that worker's data
C13_Witness ==
    /\ seen.after_own /\ seen.superseded
    /\ seen.status = "ok" /\ ~seen.own_data
FailedLoad == {"ReconstructionError"} \cup Interruptions

\* C15: a load of an entry by reference that ends in ReconstructionError,
\* is cancelled or times out leaves the store as it was (same stored
\* workflow, same pass_by, same tier), and a load of the key made next
\* would succeed with the engine's output for that workflow.
C15_FailedLoadLeavesEntry ==
    [][\A k \in Keys :
          (ret'.op = "load" /\ ret'.key = k /\ ret'.status \in FailedLoad)
             => /\ meta' = meta /\ shm' = shm /\ files' = files
                /\ ramUsed' = ramUsed /\ diskUsed' = diskUsed
                /\ closed' = closed
                /\ meta'[k].pass_by = "ref"
                /\ LoadOutcome(k)' = LoadOutcome(k)
                /\ LoadOutcome(k).status = "ok"]_vars

\* a load by reference has just timed out and the entry is still there
C15_Witness ==
    /\ ret.op = "load" /\ ret.status = "TimeoutError"
    /\ meta[ret.key].present /\ meta[ret.key].pass_by = "ref"

\* C16: store-level error isolation.  A save, load or export_data on key k
\* that raises (KeyError, TypeError, FileExistsError, MemoryError,
\* ReconstructionError, a cancelled or timed-out load) leaves the entry of
\* every other key as it was: metadata (tier, pass_by, size) and payload.
C16_ErrorIsolation ==
    [][(ret'.op \in {"save", "load", "export"} /\ ret'.status # "ok")
          => \A j \in Keys \ {ret'.key} :
                /\ meta'[j] = meta[j]
                /\ meta[j].present => PayloadOf(j)' = PayloadOf(j)]_vars

\* a save on one key has just raised MemoryError while the other key holds
\* an entry
C16_Witness ==
    /\ ret.op = "save" /\ ret.status = "MemoryError"
    /\ \E j \in Keys \ {ret.key} : meta[j].present
\* what a port map lists, by node
ListedIn(map) == {map[u].node_id : u \in DOMAIN map}

\* port n of workflow g has a later port of the same unique_id and mode
Overwritten(g, n) ==
    \E m \in Ports(g) :
        /\ m.unique_id = n.unique_id /\ m.id > n.id
        /\ (InLinks(g, m.id) = {}) = (InLinks(g, n.id) = {})
        /\ (OutLinks(g, m.id) = {}) = (OutLinks(g, n.id) = {})

UniqueIds(g) == \A m, n \in Ports(g) : m.unique_id = n.unique_id => m = n

PlusOffset(g, d) ==
    [nodes |-> {Node(n.id + d, n.type, n.unique_id) : n \in g.nodes},
     links |-> {Link(l.id + d, l.source_id + d, l.source_slot, l.target_id + d,
                     l.target_slot, l.type) : l \in g.links}]

IdsUsed(g) == {n.id : n \in g.nodes} \cup {l.id : l \in g.links}

\* C18: disjoint renumbering.  When workflows are stitched, the first keeps
\* its ids and every later one has all its node ids, link ids and link
\* endpoints moved up by one more than the largest id in use in the
\* renumbered workflows before it; the node ids of any two renumbered
\* workflows are disjoint and so are their link ids, so their union has as
\* many nodes and links as the workflows together.
C18_DisjointRenumbering ==
    gret.op = "stitch" =>
        LET R == Renumber(wfs)
        IN /\ Len(R) = Len(wfs)
           /\ R[1] = wfs[1]
           /\ \A k \in DOMAIN R \ {1} :
                 R[k] = PlusOffset(wfs[k],
                                   1 + MaxOf(UNION {IdsUsed(R[j]) : j \in 1..(k - 1)}))
           /\ \A j, k \in DOMAIN R :
                 j # k =>
                    /\ {n.id : n \in R[j].nodes} \cap {n.id : n \in R[k].nodes} = {}
                    /\ {l.id : l \in R[j].links} \cap {l.id : l \in R[k].links} = {}
           /\ \A m, n \in UnionOf(R).nodes : m.id = n.id => m = n
           /\ \A l, m \in UnionOf(R).links : l.id = m.id => l = m
           /\ gret.status = "ok" =>
                 gret.stitched_workflow.nodes \subseteq UnionOf(R).nodes

\* three workflows that use the same ids have been stitched into one
C18_Witness ==
    /\ gret.op = "stitch" /\ gret.status = "ok"
    /\ Len(wfs) = Cardinality(NodeIds)
    /\ \A i \in DOMAIN wfs : IdsUsed(wfs[i]) = IdsUsed(wfs[1])
    /\ gret.stitched_workflow.nodes # {}

\* g has a cycle: a set of nodes each of which is fed by one of the set
Cyclic(g) ==
    \E S \in SUBSET {n.id : n \in g.nodes} :
        /\ S # {}
        /\ \A id \in S : \E l \in g.links : l.target_id = id /\ l.source_id \in S

PositionIn(order, id) == CHOOSE i \in DOMAIN order : order[i] = id

\* every workflow handed over is acyclic and has no unconnected port
Stitchable == \A i \in DOMAIN wfs : ~Cyclic(wfs[i]) /\ ~HasDanglingPort(wfs[i])

\* C19: execution order.  When acyclic workflows whose stitched union is
\* acyclic are stitched, the call succeeds and the execution order it returns
\* lists every node of the stitched workflow exactly once, the source of
\* every link before its target.
C19_ExecutionOrder ==
    (/\ gret.op = "stitch"
     /\ Stitchable
     /\ ~Cyclic(Stitched(wfs, gret.delete_input_ports, gret.delete_output_ports)))
        => LET g == gret.stitched_workflow
               order == gret.execution_order
           IN /\ gret.status = "ok"
              /\ g = Stitched(wfs, gret.delete_input_ports,
                              gret.delete_output_ports)
              /\ Len(order) = Cardinality(g.nodes)
              /\ {order[i] : i \in DOMAIN order} = {n.id : n \in g.nodes}
              /\ \A l \in g.links :
                    /\ l.source_id \in {n.id : n \in g.nodes}
                    /\ l.target_id \in {n.id : n \in g.nodes}
                    /\ PositionIn(order, l.source_id) < PositionIn(order, l.target_id)

\* a stitched workflow in which a join made a link run from a node of the
\* second workflow to a node of the first
C19_Witness ==
    /\ gret.op = "stitch" /\ gret.status = "ok"
    /\ \E l \in gret.stitched_workflow.links :
          /\ l.source_id > l.target_id
          /\ l.source_id > MaxId(wfs[1])
          /\ l.target_id <= MaxId(wfs[1])

\* C20: a cycle made by the join.  When workflows that are each acyclic are
\* stitched and the joined workflow has a cycle, stitch_workflows raises
\* NetworkXUnfeasible and returns nothing: no stitched workflow, no port map,
\* no execution order.
C20_CycleRejected ==
    (/\ gret.op = "stitch"
     /\ Stitchable
     /\ Cyclic(Stitched(wfs, gret.delete_input_ports, gret.delete_output_ports)))
        => /\ gret.status = "NetworkXUnfeasible"
           /\ gret.stitched_workflow = NoGraph
           /\ gret.inputs = NoPorts /\ gret.outputs = NoPorts
           /\ gret.execution_order = <<>>

\* two acyclic workflows, each feeding the other, have been refused
C20_Witness ==
    /\ gret.op = "stitch"
    /\ gret.status = "NetworkXUnfeasible"
    /\ Len(wfs) = Cardinality(Uids)
    /\ Stitchable
    /\ gret.stitched_workflow = NoGraph

\* the unique_id values of the DiscomfortPorts of workflow g that only give
\* (INPUT: no incoming link, some outgoing) or only take (OUTPUT)
BoundaryUids(g, mode) ==
    {n.unique_id : n \in {m \in Ports(g) :
        IF mode = "INPUT"
        THEN InLinks(g, m.id) = {} /\ OutLinks(g, m.id) # {}
        ELSE InLinks(g, m.id) # {} /\ OutLinks(g, m.id) = {}}}

\* the unique_id values that are an output of one of two workflows and an
\* input of the other
Collapsed(g1, g2) ==
    (BoundaryUids(g1, "OUTPUT") \cap BoundaryUids(g2, "INPUT"))
      \cup (BoundaryUids(g2, "OUTPUT") \cap BoundaryUids(g1, "INPUT"))

SingleProducer ==
    /\ \A i \in DOMAIN wfs : UniqueIds(wfs[i])
    /\ \A i, j \in DOMAIN wfs :
          i # j => BoundaryUids(wfs[i], "OUTPUT")
                     \cap BoundaryUids(wfs[j], "OUTPUT") = {}

\* every DiscomfortPort is linked to nodes that are not ports
NoPortToPort ==
    \A i \in DOMAIN wfs : \A l \in wfs[i].links :
        ~(l.source_id \in PortIds /\ l.target_id \in PortIds)

PortWith(g, u) == CHOOSE n \in Ports(g) : n.unique_id = u

\* the pairs (producer, consumer, unique_id): workflow p[1] outputs what
\* workflow p[2] takes as input
Feeds(R) ==
    {p \in (DOMAIN R) \X (DOMAIN R) \X Uids :
        /\ p[1] # p[2]
        /\ p[3] \in BoundaryUids(R[p[1]], "OUTPUT")
        /\ p[3] \in BoundaryUids(R[p[2]], "INPUT")}

Wire(l) == <<l.source_id, l.source_slot, l.target_id, l.target_slot, l.type>>

\* what the connections ask for: from whatever fed the output port to
\* whatever the input port fed, with the consumer's slot and type
Wiring(R) ==
    UNION {{<<l.source_id, l.source_slot, c.target_id, c.target_slot, c.type>> :
               l \in InLinks(R[p[1]], PortWith(R[p[1]], p[3]).id),
               c \in OutLinks(R[p[2]], PortWith(R[p[2]], p[3]).id)} :
           p \in Feeds(R)}

Duplicated(g) ==
    {n.unique_id : n \in {m \in Ports(g) :
        \E k \in Ports(g) : k # m /\ k.unique_id = m.unique_id}}

\* C26: duplicate unique_id within one workflow.  discover_port_nodes
\* returns for a workflow whose two DiscomfortPorts carry the same unique_id:
\* unique_id_to_node has one entry for it, the port with the larger node id
\* (the one met last), and where both ports have the same mode the map of
\* that mode lists that port and not the earlier one.
C26_DuplicateLastWins ==
    (gret.op = "discover" /\ ~UniqueIds(wfs[gret.index]))
        => LET g == wfs[gret.index]
           IN /\ gret.status = "ok"
              /\ \A u \in Duplicated(g) :
                    LET same == {n.id : n \in {m \in Ports(g) : m.unique_id = u}}
                        last == MaxOf(same)
                    IN /\ u \in DOMAIN gret.unique_id_to_node
                       /\ gret.unique_id_to_node[u].node_id = last
                       /\ \A map \in {gret.inputs, gret.outputs, gret.passthrus} :
                             /\ Cardinality(ListedIn(map) \cap same) <= 1
                             /\ (\A id \in same : ModeOf(g, id) = ModeOf(g, last))
                                   => ListedIn(map) \cap same \subseteq {last}
              /\ Cardinality(ListedIn(gret.unique_id_to_node))
                    = Cardinality(DOMAIN gret.unique_id_to_node)

\* a workflow with two input ports of one unique_id has been resolved
C26_Witness ==
    /\ gret.op = "discover" /\ gret.status = "ok"
    /\ ~UniqueIds(wfs[gret.index])
    /\ Cardinality(ListedIn(gret.inputs)) = 1
    /\ ListedIn(gret.outputs) = {} /\ ListedIn(gret.passthrus) = {}
    /\ ListedIn(gret.unique_id_to_node) = {MaxOf(PortIds)}

\* the unique_id values of INPUT ports that no other workflow of the list
\* outputs
UnmatchedInputs ==
    UNION {{u \in BoundaryUids(wfs[i], "INPUT") :
               \A j \in DOMAIN wfs \ {i} : u \notin BoundaryUids(wfs[j], "OUTPUT")} :
           i \in DOMAIN wfs}

\* C27: stitching with delete_input_ports set fails when an INPUT port's
\* unique_id is output by no other workflow (stitch_workflows takes no
\* values from the caller): it does not return a stitched workflow from
\* which that port was removed.
C27_PruneFailsLoudly ==
    (/\ gret.op = "stitch" /\ gret.delete_input_ports
     /\ UnmatchedInputs # {})
        => gret.status # "ok"

\* link a enters the Reroute node that link b leaves
Hops(g) ==
    {h \in g.links \X g.links :
        /\ h[1].target_id = h[2].source_id
        /\ \E n \in g.nodes : n.id = h[1].target_id /\ n.type = "Reroute"}

TwoHops(g) ==
    {<<p[1][1], p[2][2]>> : p \in {q \in Hops(g) \X Hops(g) : q[1][2] = q[2][1]}}

\* the connections of workflow g that run through Reroute nodes (one, or
\* two in a chain): the link leaving a node that stays, and the link
\* entering a node that stays
Connections(g) ==
    {c \in Hops(g) \cup TwoHops(g) :
        /\ \E n \in g.nodes : n.id = c[1].source_id /\ n.type # "Reroute"
        /\ \E n \in g.nodes : n.id = c[2].target_id /\ n.type # "Reroute"}

\* C25: reroute elimination.  After remove_reroute_nodes no Reroute node is
\* left and every other node is kept as it was; for every connection from an
\* output of a node that stays, through one Reroute node or two in a chain,
\* to an input of a node that stays, the result has exactly one link from
\* that output to that input, with the data type of the connection (a
\* Reroute node that feeds several inputs gives one link for each); links
\* between nodes that stay are kept, no other link appears, and no link of
\* the result has a removed node as an endpoint.
C25_RerouteElimination ==
    gret.op = "remove_reroute_nodes" =>
        LET g == wfs[gret.index]
            kept == {n \in g.nodes : n.type # "Reroute"}
            direct == {l \in g.links :
                          {l.source_id, l.target_id} \subseteq {n.id : n \in kept}}
            through == {[c[2] EXCEPT !.source_id = c[1].source_id,
                                     !.source_slot = c[1].source_slot] :
                           c \in Connections(g)}
        IN /\ gret.status = "ok"
           /\ \A n \in gret.clean_nodes : n.type # "Reroute"
           /\ gret.clean_nodes = kept
           /\ \A c \in Connections(g) :
                 /\ c[1].type = c[2].type
                 /\ Cardinality({l \in gret.clean_links :
                       /\ l.source_id = c[1].source_id
                       /\ l.source_slot = c[1].source_slot
                       /\ l.target_id = c[2].target_id
                       /\ l.target_slot = c[2].target_slot
                       /\ l.type = c[1].type}) = 1
           /\ gret.clean_links = direct \cup through
           /\ \A l \in gret.clean_links :
                 {l.source_id, l.target_id} \subseteq {n.id : n \in gret.clean_nodes}

\* a workflow in which one output reaches both inputs of a node, one of them
\* through two Reroute nodes in a chain, has lost its Reroute nodes
C25_Witness ==
    /\ gret.op = "remove_reroute_nodes"
    /\ LET g == wfs[gret.index]
       IN /\ \E c \in Connections(g) \cap TwoHops(g) :
                \E d \in Connections(g) \ TwoHops(g) :
                   /\ c[1] = d[1]
                   /\ c[2].target_slot # d[2].target_slot
          /\ Cardinality(gret.clean_links) = 2
          /\ Cardinality(g.nodes) > Cardinality(gret.clean_nodes)

\* the node a pruning call aimed at: the OUTPUT port of the unique_id given
TargetOf(g, u) ==
    CHOOSE n \in Ports(g) :
        /\ n.unique_id = u
        /\ InLinks(g, n.id) # {} /\ OutLinks(g, n.id) = {}
        /\ \A m \in Ports(g) :
              (m.unique_id = u /\ InLinks(g, m.id) # {} /\ OutLinks(g, m.id) = {})
                 => m.id <= n.id

\* C22: pruning preserves the target value.  Executing the workflow that
\* _prune_workflow_to_output returns and reading the target gives what
\* executing the whole workflow and reading the same node gives, on an engine
\* where a node's output is a function of the node and of its inputs.
C22_PruningPreservesValue ==
    gret.op = "_prune_workflow_to_output" =>
        LET g == wfs[gret.index]
            t == TargetOf(g, gret.target_output_unique_id).id
        IN /\ gret.status = "ok"
           /\ t \in IdsOfNodes(gret.pruned_workflow)
           /\ ValueAt(gret.pruned_workflow, t) = ValueAt(g, t)

\* a workflow has been pruned to an output port that an input port feeds
\* through a node
C22_Witness ==
    /\ gret.op = "_prune_workflow_to_output"
    /\ LET g == wfs[gret.index]
           t == TargetOf(g, gret.target_output_unique_id).id
       IN \E l \in InLinks(g, t) : \E k \in InLinks(g, l.source_id) :
             /\ k.source_id \in IdsOfNodes(gret.pruned_workflow)
             /\ ValueAt(gret.pruned_workflow, t).inputs # {}

\* C23: pruning is exact.  The workflow _prune_workflow_to_output returns
\* holds the target node and every node from which a chain of links leads to
\* it, as they were, and no other node; its links are exactly the links of
\* the workflow with both endpoints among those nodes.
C23_PruningExact ==
    gret.op = "_prune_workflow_to_output" =>
        LET g == wfs[gret.index]
            t == TargetOf(g, gret.target_output_unique_id).id
            p == gret.pruned_workflow
            S == IdsOfNodes(p)
        IN /\ t \in S
           /\ p.nodes = {n \in g.nodes : n.id \in S}
           /\ \A l \in g.links : l.target_id \in S => l.source_id \in S
           /\ \A id \in S \ {t} : \E l \in g.links : l.source_id = id /\ l.target_id \in S
           /\ ~Cyclic(g)
           /\ p.links = {l \in g.links : l.source_id \in S /\ l.target_id \in S}

\* a workflow has been pruned to one of its two outputs: the other output
\* port and the link into it are left out
C23_Witness ==
    /\ gret.op = "_prune_workflow_to_output"
    /\ Cardinality(gret.pruned_workflow.nodes) = 2
    /\ Cardinality(wfs[gret.index].links) = 2
    /\ Cardinality(gret.pruned_workflow.links) = 1

\* C28: tier of the entries.  An entry saved with pass_by="ref" is in RAM
\* after every save, whatever use_ram was and however much RAM is left, and
\* an entry saved with pass_by="val" and use_ram=False is on disk.
C28_ReferenceTier ==
    /\ \A k \in Keys :
          (meta[k].present /\ meta[k].pass_by = "ref")
             => meta[k].storage_type = "ram"
    /\ (ret.op = "save" /\ ret.status = "ok"
          /\ ret.arg.pass_by = "val" /\ ~ret.arg.use_ram)
             => meta[ret.key].storage_type = "disk"

\* C30: RAM budget.  Whatever saves (overwriting ones too), loads, exports
\* and shutdowns were called, by one caller or by workers taking turns under
\* the lock, get_usage never reports more RAM in use than the capacity, and
\* the segments held in shared memory never add up to more than it.
C30_RamBudget ==
    /\ get_usage.ram_usage_bytes <= get_usage.ram_capacity_bytes
    /\ SumSizes(RamKeys) <= get_usage.ram_capacity_bytes

\* RAM is full, a worker's save went to disk for that reason, and another
\* worker is in the middle of a save
C30_Witness ==
    /\ get_usage.ram_usage_bytes = get_usage.ram_capacity_bytes
    /\ DiskKeys # {}
    /\ \E t \in Threads : pc[t].at = "save_count" /\ meta[pc[t].key].present

\* the State Transitions of a ComfyConnector
Transitions ==
    {<<"uninit", "initializing">>, <<"initializing", "ready">>,
     <<"initializing", "error">>, <<"ready", "killed">>, <<"error", "killed">>}

\* C29: connector lifecycle.  The state of a ComfyConnector is one of uninit,
\* initializing, ready, error and killed; an instance starts in uninit and
\* its state changes only uninit -> initializing, initializing -> ready,
\* initializing -> error, ready -> killed and error -> killed: ready is
\* entered from initializing alone and killed is never left.
C29_ConnectorLifecycle ==
    [][/\ \A i \in DOMAIN state' : state'[i] \in States
       /\ DOMAIN state \subseteq DOMAIN state'
       /\ \A i \in DOMAIN state' \ DOMAIN state : state'[i] = "uninit"
       /\ \A i \in DOMAIN state :
             /\ state'[i] # state[i] => <<state[i], state'[i]>> \in Transitions
             /\ state'[i] = "ready" => state[i] \in {"initializing", "ready"}
             /\ state[i] = "killed" => state'[i] = "killed"]_vars

\* the first connector ran a workflow and was shut down, the second failed
\* to initialize and was shut down
C29_Witness ==
    /\ Len(state) >= 2
    /\ state[1] = "killed"
    /\ state[2] = "killed"
    /\ instance = 0
    /\ runs > 0
    /\ runs < MaxRuns
====
